---------------------------- MODULE Spec2Model ----------------------------
(***************************************************************************)
(* Model of the weather tweet bot (src/weatherappbot.py).                  *)
(*                                                                         *)
(* Text is modelled as a sequence of characters, one one-character string  *)
(* per code point; a code point outside ASCII is written "U+XXXX" and      *)
(* counts as one character, as Python's len() counts it.  A dict is a      *)
(* function from its keys, None and the empty dict are both the function   *)
(* with the empty domain (the code only ever tests them for truthiness).   *)
(* Numbers of a weather document are integers in the document's own units  *)
(* (degrees Celsius, m/s, degrees, mm).                                    *)
(***************************************************************************)
EXTENDS Integers, Sequences, FiniteSets, TLC

(***************************************************************************)
(* Bounds of the model.                                                    *)
(***************************************************************************)
\* number of body lines and of hashtags drawn for create_full_tweet_text
MaxLines == 2
MaxTags == 3
\* degrees_to_cardinal is applied to -MaxTurns*360 .. MaxTurns*360 + 360
MaxTurns == 1

(***************************************************************************)
(* Program constants.                                                      *)
(***************************************************************************)
TWITTER_MAX_CHARS == 280
CITY_TO_MONITOR == <<"G", "a", "c", "h", "i", "b", "o", "w", "l", "i">>

(***************************************************************************)
(* Python built-ins used by the code.                                      *)
(***************************************************************************)
None == [k \in {} |-> k]

\* bool(x) of a dict, a list, a string or None
Truthy(x) == DOMAIN x # {}

\* d.get(key, default)
Get(d, key, default) == IF key \in DOMAIN d THEN d[key] ELSE default

\* sep.join(parts)
RECURSIVE Join(_, _)
Join(sep, parts) ==
    IF Len(parts) = 0 THEN <<>>
    ELSE IF Len(parts) = 1 THEN parts[1]
    ELSE parts[1] \o sep \o Join(sep, Tail(parts))

\* int(x / y): Python's int() truncates toward zero
Trunc(x, y) == IF x >= 0 THEN x \div y ELSE -((-x) \div y)

Digits == <<"0", "1", "2", "3", "4", "5", "6", "7", "8", "9">>

RECURSIVE NatToStr(_)
NatToStr(n) ==
    IF n < 10 THEN <<Digits[n + 1]>>
    ELSE NatToStr(n \div 10) \o <<Digits[(n % 10) + 1]>>

\* f"{n:.0f}" of a whole number
Fmt0f(n) == IF n < 0 THEN <<"-">> \o NatToStr(-n) ELSE NatToStr(n)

\* f"{x:.0f}" of x = tenths / 10, tenths >= 0 and not ending in 5 (no tie)
Fmt0fTenths(tenths) == NatToStr((tenths + 5) \div 10)

\* f"{n:.2f}" of a whole number n >= 0
Fmt2f(n) == NatToStr(n) \o <<".", "0", "0">>

\* strftime("%I") and strftime("%M"): two digits, zero padded
Fmt02(n) == IF n < 10 THEN <<"0">> \o NatToStr(n) ELSE NatToStr(n)

LowerCase == <<"a", "b", "c", "d", "e", "f", "g", "h", "i", "j", "k", "l", "m",
               "n", "o", "p", "q", "r", "s", "t", "u", "v", "w", "x", "y", "z">>
UpperCase == <<"A", "B", "C", "D", "E", "F", "G", "H", "I", "J", "K", "L", "M",
               "N", "O", "P", "Q", "R", "S", "T", "U", "V", "W", "X", "Y", "Z">>

IsLower(c) == \E i \in 1..26 : LowerCase[i] = c
IsUpper(c) == \E i \in 1..26 : UpperCase[i] = c
IsLetter(c) == IsLower(c) \/ IsUpper(c)
ToLower(c) == IF IsUpper(c) THEN LowerCase[CHOOSE i \in 1..26 : UpperCase[i] = c] ELSE c
ToUpper(c) == IF IsLower(c) THEN UpperCase[CHOOSE i \in 1..26 : LowerCase[i] = c] ELSE c

\* s.lower()
Lower(s) == [i \in 1..Len(s) |-> ToLower(s[i])]

\* s.title(): a letter that follows a non-letter is upper-cased, any other
\* letter is lower-cased
Title(s) ==
    [i \in 1..Len(s) |->
        IF i = 1 \/ ~IsLetter(s[i - 1]) THEN ToUpper(s[i]) ELSE ToLower(s[i])]

\* sub in s
Contains(s, sub) ==
    \E i \in 0..(Len(s) - Len(sub)) : SubSeq(s, i + 1, i + Len(sub)) = sub

\* s * n
Rep(s, n) == [i \in 1..(n * Len(s)) |-> s[((i - 1) % Len(s)) + 1]]

(***************************************************************************)
(* degrees_to_cardinal                                                     *)
(***************************************************************************)
dirs == << <<"N">>, <<"N", "N", "E">>, <<"N", "E">>, <<"E", "N", "E">>,
           <<"E">>, <<"E", "S", "E">>, <<"S", "E">>, <<"S", "S", "E">>,
           <<"S">>, <<"S", "S", "W">>, <<"S", "W">>, <<"W", "S", "W">>,
           <<"W">>, <<"W", "N", "W">>, <<"N", "W">>, <<"N", "N", "W">> >>

\* ix = int((d + 11.25) / 22.5), with numerator and denominator times four
CardinalIndex(d) == Trunc(4 * d + 45, 90)

\* Python's % takes the sign of the divisor, as TLA+'s does
degrees_to_cardinal(d) == dirs[(CardinalIndex(d) % 16) + 1]

(***************************************************************************)
(* create_full_tweet_text                                                  *)
(***************************************************************************)
Body(tweet_lines) == Join(<<"\n">>, tweet_lines)

\* f"{body}\n{hashtag_str}"
FullTweet(body, hashtags) == body \o <<"\n">> \o Join(<<" ">>, hashtags)

FitsNoNewline(body, hashtags) ==
    Len(body \o Join(<<" ">>, hashtags)) <= TWITTER_MAX_CHARS
Fits(body, hashtags) == Len(FullTweet(body, hashtags)) <= TWITTER_MAX_CHARS

\* hashtags.pop()
Pop(list) == SubSeq(list, 1, Len(list) - 1)

\* the list the while loop leaves behind in the caller's hashtags
RECURSIVE TrimmedHashtags(_, _)
TrimmedHashtags(body, hashtags) ==
    IF Len(hashtags) = 0 THEN hashtags
    ELSE IF Fits(body, hashtags) THEN hashtags
    ELSE TrimmedHashtags(body, Pop(hashtags))

create_full_tweet_text(tweet_lines, hashtags) ==
    LET body == Body(tweet_lines)
        kept == TrimmedHashtags(body, hashtags)
    IN  IF Len(kept) = 0 THEN body ELSE FullTweet(body, kept)

(***************************************************************************)
(* generate_dynamic_hashtags                                               *)
(***************************************************************************)
TagGachibowli == <<"#", "G", "a", "c", "h", "i", "b", "o", "w", "l", "i">>
TagHyderabad == <<"#", "H", "y", "d", "e", "r", "a", "b", "a", "d">>
TagWeatherUpdate == <<"#", "w", "e", "a", "t", "h", "e", "r", "u", "p", "d", "a", "t", "e">>
TagHyderabadRains == <<"#", "H", "y", "d", "e", "r", "a", "b", "a", "d", "R", "a", "i", "n", "s">>
TagRain == <<"#", "r", "a", "i", "n">>
TagHeatwave == <<"#", "H", "e", "a", "t", "w", "a", "v", "e">>
TagSunnyDay == <<"#", "S", "u", "n", "n", "y", "D", "a", "y">>
TagWindy == <<"#", "w", "i", "n", "d", "y">>
TagWeekendWeather == <<"#", "W", "e", "e", "k", "e", "n", "d", "W", "e", "a", "t", "h", "e", "r">>

Saturday == <<"S", "a", "t", "u", "r", "d", "a", "y">>
Sunday == <<"S", "u", "n", "d", "a", "y">>
Clear == <<"c", "l", "e", "a", "r">>

BaseTags == {TagGachibowli, TagHyderabad, TagWeatherUpdate}

\* list(hashtags): a Python set of strings iterates in the order its elements
\* lie in the hash table, which follows from the strings' hashes; the
\* interpreter salts them per process, and the table's size follows the set,
\* so the elements can come in any order, and the order of one set says
\* nothing about the order of another.  ListOrders(set) is every list the
\* call can return.
RECURSIVE ListOrders(_)
ListOrders(set) ==
    IF set = {}
    THEN { <<>> }
    ELSE UNION { { <<first>> \o rest : rest \in ListOrders(set \ {first}) } : first \in set }

\* weather_data.get('weather', [{}])[0] raises IndexError on an empty list
WeatherList(weather_data) == Get(weather_data, "weather", <<None>>)

WindKmhTenths(weather_data) == Get(Get(weather_data, "wind", None), "speed", 0) * 36

\* the hashtag set before it is turned into a list
HashtagSet(weather_data, current_day) ==
    LET main_conditions == Get(weather_data, "main", None)
        weather_main_info == WeatherList(weather_data)[1]
        rain_info_api == Get(weather_data, "rain", None)
        temp_celsius == Get(main_conditions, "temp", 0)
        sky_description == Lower(Get(weather_main_info, "description", <<>>))
        rain_1h == Get(rain_info_api, "1h", 0)
    IN  BaseTags
        \cup (IF rain_1h > 0 THEN {TagHyderabadRains, TagRain} ELSE {})
        \cup (IF temp_celsius > 35 THEN {TagHeatwave} ELSE {})
        \cup (IF Contains(sky_description, Clear) THEN {TagSunnyDay} ELSE {})
        \cup (IF WindKmhTenths(weather_data) > 250 THEN {TagWindy} ELSE {})
        \cup (IF current_day \in {Saturday, Sunday} THEN {TagWeekendWeather} ELSE {})

\* line 269: [0] on an empty 'weather' list raises IndexError
HashtagsRaise(weather_data) == Len(WeatherList(weather_data)) = 0

\* every list the call can return; none when it raises
generate_dynamic_hashtags(weather_data, current_day) ==
    IF HashtagsRaise(weather_data)
    THEN {}
    ELSE ListOrders(HashtagSet(weather_data, current_day))

(***************************************************************************)
(* generate_tweet_content                                                  *)
(***************************************************************************)
\* now.strftime("%I:%M %p")
TimeStr(now) == Fmt02(now.hour) \o <<":">> \o Fmt02(now.minute) \o <<" ">> \o now.ampm

\* f"{now.day} {now.strftime('%B')}"
DateStr(now) == NatToStr(now.day) \o <<" ">> \o now.month

GreetingLine(now) ==
    <<"H", "e", "l", "l", "o", ",", " ">> \o CITY_TO_MONITOR
    \o <<"!", "U+F8FF", "U+00FC", "U+00EB", "U+00E3", ",", " ">> \o now.weekday
    \o <<" ", "w", "e", "a", "t", "h", "e", "r", " ", "a", "t", " ">> \o DateStr(now)
    \o <<",", " ">> \o TimeStr(now) \o <<":">>

RainForecast(rain_1h) ==
    IF rain_1h > 0
    THEN <<"U+201A", "U+00F2", "U+00EE", " ", "R", "a", "i", "n", ":", " ">>
         \o Fmt2f(rain_1h) \o <<" ", "m", "m", "/", "h", "r">>
    ELSE <<"U+201A", "U+00F2", "U+00EE", " ", "N", "o", " ", "R", "a", "i", "n">>

MsgStayDry ==
    <<"S", "t", "a", "y", " ", "d", "r", "y", " ", "o", "u", "t", " ", "t", "h",
      "e", "r", "e", "!", " ", "U+F8FF", "U+00FC", "U+00E5", "U+00DF", "U+00D4",
      "U+220F", "U+00E8">>
MsgHot ==
    <<"I", "t", "'", "s", " ", "a", " ", "h", "o", "t", " ", "o", "n", "e", "!",
      " ", "S", "t", "a", "y", " ", "c", "o", "o", "l", " ", "&", " ", "h", "y",
      "d", "r", "a", "t", "e", "d", ".", " ", "U+201A", "U+00F2", "U+00C4",
      "U+00D4", "U+220F", "U+00E8">>
MsgCool ==
    <<"B", "r", "r", ",", " ", "i", "t", "'", "s", " ", "c", "o", "o", "l", "!",
      " ", "C", "o", "n", "s", "i", "d", "e", "r", " ", "a", " ", "l", "i", "g",
      "h", "t", " ", "j", "a", "c", "k", "e", "t", ".", " ", "U+F8FF", "U+00FC",
      "U+00DF", "U+00A3">>
MsgEnjoy ==
    <<"E", "n", "j", "o", "y", " ", "y", "o", "u", "r", " ", "d", "a", "y", "!",
      " ", "U+F8FF", "U+00FC", "U+00F2", "U+00E4">>

\* rain_1h > 0.5 of a whole number of mm is 2 * rain_1h > 1
ClosingMessage(rain_1h, temp_celsius) ==
    IF 2 * rain_1h > 1 THEN MsgStayDry
    ELSE IF temp_celsius > 35 THEN MsgHot
    ELSE IF temp_celsius < 18 THEN MsgCool
    ELSE MsgEnjoy

TweetLines(weather_data, now) ==
    LET weather_main_info == WeatherList(weather_data)[1]
        main_conditions == Get(weather_data, "main", None)
        wind_conditions == Get(weather_data, "wind", None)
        rain_info_api == Get(weather_data, "rain", None)
        sky_description == Title(Get(weather_main_info, "description", <<"N", "/", "A">>))
        temp_celsius == Get(main_conditions, "temp", 0)
        feels_like_celsius == Get(main_conditions, "feels_like", 0)
        humidity == Get(main_conditions, "humidity", 0)
        wind_dir == degrees_to_cardinal(Get(wind_conditions, "deg", 0))
        rain_1h == Get(rain_info_api, "1h", 0)
    IN  << GreetingLine(now),
           <<"U+201A", "U+00F2", "U+00C5", "U+00D4", "U+220F", "U+00E8", " ",
             "S", "k", "y", ":", " ">> \o sky_description,
           <<"U+F8FF", "U+00FC", "U+00E5", "U+00B0", "U+00D4", "U+220F", "U+00E8",
             " ", "T", "e", "m", "p", ":", " ">> \o Fmt0f(temp_celsius)
             \o <<"U+00AC", "U+221E", "C", " ", "(", "f", "e", "e", "l", "s", ":", " ">>
             \o Fmt0f(feels_like_celsius) \o <<"U+00AC", "U+221E", "C", ")">>,
           <<"U+F8FF", "U+00FC", "U+00ED", "U+00DF", " ", "H", "u", "m", "i", "d",
             "i", "t", "y", ":", " ">> \o Fmt0f(humidity) \o <<"%">>,
           <<"U+F8FF", "U+00FC", "U+00ED", "U+00AE", " ", "W", "i", "n", "d", ":", " ">>
             \o Fmt0fTenths(WindKmhTenths(weather_data))
             \o <<" ", "k", "m", "/", "h", " ", "f", "r", "o", "m", " ", "t", "h", "e", " ">>
             \o wind_dir,
           RainForecast(rain_1h),
           <<>>,
           ClosingMessage(rain_1h, temp_celsius) >>

\* line 241: the IndexError of [0] on an empty 'weather' list
ContentRaises(weather_data) ==
    Truthy(weather_data) /\ Len(WeatherList(weather_data)) = 0

\* every (tweet_lines, hashtags) the call can return
generate_tweet_content(weather_data, now) ==
    IF ~Truthy(weather_data)
    THEN { [tweet_lines |-> None, hashtags |-> None] }
    ELSE LET lines == TweetLines(weather_data, now)
         IN  { [tweet_lines |-> lines, hashtags |-> tags] :
                   tags \in generate_dynamic_hashtags(weather_data, now.weekday) }

(***************************************************************************)
(* What the collaborators can return.                                      *)
(***************************************************************************)
DescClearSky == <<"c", "l", "e", "a", "r", " ", "s", "k", "y">>
DescSkyIsClear == <<"S", "k", "y", " ", "I", "s", " ", "C", "L", "E", "A", "R">>
DescLightRain == <<"l", "i", "g", "h", "t", " ", "r", "a", "i", "n">>
\* a description of 300 characters
DescLong == Rep(<<"h", "e", "a", "v", "y", " ", "r", "a", "i", "n", " ", "a", "n", "d", " ">>, 20)

\* the JSON document of the current-weather API
Doc(description, temp, speed, deg, rain_1h) ==
    [weather |-> << [description |-> description] >>,
     main |-> [temp |-> temp, feels_like |-> temp + 2, humidity |-> 40],
     wind |-> [speed |-> speed, deg |-> deg],
     rain |-> ("1h" :> rain_1h)]

\* the documents of the preview comparison: cool and mild
PreviewDocs == {Doc(DescLightRain, t, 3, 90, 0) : t \in {17, 30}}

\* the documents the handlers are given have every key present and call for
\* no hashtag of the weather: a process keeps the order of every set it has
\* iterated, and the sets of these documents are the base tags and the base
\* tags with the weekend's
FullDocs == { Doc(DescLong, 30, 3, 90, 0) } \cup PreviewDocs

\* documents with keys missing: no rain and no wind direction, no description,
\* nothing but the city name
SparseDocs ==
    { [weather |-> << [description |-> DescLightRain] >>,
       main |-> [temp |-> 30, feels_like |-> 32, humidity |-> 40],
       wind |-> [speed |-> 3]],
      [weather |-> << [main |-> "Clouds"] >>,
       main |-> [temp |-> -3],
       wind |-> [speed |-> 5, deg |-> -20]],
      [name |-> "Gachibowli"] }

\* a document whose 'weather' list is empty
MalformedDocs == { [weather |-> <<>>, main |-> [temp |-> 30]] }

WellFormedDocs == FullDocs \cup SparseDocs
WeatherDocs == WellFormedDocs \cup MalformedDocs

\* the documents generate_dynamic_hashtags is applied to on its own: those of
\* the handlers, the malformed one included, and heat, clear skies, wind and
\* rain, up to three conditions at once
HashtagDocs ==
    WeatherDocs \cup { Doc(DescClearSky, 36, 10, 90, 0),
                       Doc(DescClearSky, 36, 3, 90, 0),
                       Doc(DescSkyIsClear, 30, 3, 90, 0),
                       Doc(DescLightRain, 36, 3, 90, 0),
                       Doc(DescLightRain, 17, 7, 90, 0),
                       Doc(DescLightRain, 17, 3, 90, 1),
                       Doc(DescLightRain, 36, 3, 90, 1),
                       [weather |-> << [description |-> DescClearSky] >>,
                        main |-> [temp |-> 36],
                        wind |-> [speed |-> 10, deg |-> -20]] }

ForecastDoc == [cnt |-> 40]

Thursday == <<"T", "h", "u", "r", "s", "d", "a", "y">>
Wednesday == <<"W", "e", "d", "n", "e", "s", "d", "a", "y">>
Weekdays ==
    { <<"M", "o", "n", "d", "a", "y">>, <<"T", "u", "e", "s", "d", "a", "y">>,
      Wednesday, Thursday, <<"F", "r", "i", "d", "a", "y">>, Saturday, Sunday }

\* datetime.now(Asia/Kolkata) at the moments considered
Clocks ==
    { [weekday |-> Thursday, day |-> 29, month |-> <<"O", "c", "t", "o", "b", "e", "r">>,
       hour |-> 1, minute |-> 11, ampm |-> <<"P", "M">>],
      [weekday |-> Saturday, day |-> 31, month |-> <<"O", "c", "t", "o", "b", "e", "r">>,
       hour |-> 9, minute |-> 5, ampm |-> <<"A", "M">>],
      [weekday |-> Wednesday, day |-> 30,
       month |-> <<"S", "e", "p", "t", "e", "m", "b", "e", "r">>,
       hour |-> 11, minute |-> 59, ampm |-> <<"P", "M">>] }

TempPath == <<"/", "t", "m", "p", "/", "w", ".", "p", "n", "g">>

(***************************************************************************)
(* State.                                                                  *)
(***************************************************************************)
VARIABLES
    POST_TO_TWITTER_ENABLED, \* module constant, read from the environment at import
    set_order,               \* the order this process iterates each set it has built
    environ,                 \* which environment variables are set
    handler,                 \* the route being served
    pc,                      \* the position in the handler
    current_weather, forecast_data, image_path,
    now, tweet_lines, hashtags, final_tweet_text,
    success,                 \* what tweet_post returned, line 318
    temp_file,               \* the run's temporary image file exists on disk
    response,                \* what the handler returned
    raised,                  \* what escaped the handler
    calls,                   \* calls made to the collaborators in this run
    stages,                  \* the stages of the run, in the order entered
    last_preview,            \* observer: the previous completed preview
    probe                    \* a pure function's arguments and result

vars == <<POST_TO_TWITTER_ENABLED, set_order, environ, handler, pc, current_weather,
          forecast_data, image_path, now, tweet_lines, hashtags, final_tweet_text,
          success, temp_file, response, raised, calls, stages, last_preview, probe>>

settings == <<POST_TO_TWITTER_ENABLED, environ>>
config == <<settings, set_order>>
composed == <<current_weather, forecast_data, image_path, now, tweet_lines, hashtags,
              final_tweet_text>>
locals == <<composed, success>>

NoCalls == [requests_weather |-> 0, requests_forecast |-> 0, render |-> 0,
            tweet_post |-> 0, media_upload |-> 0, create_tweet |-> 0, remove |-> 0]
NoResponse == [status |-> 0, body |-> ""]
NoClock == [weekday |-> <<>>]
NoPreview == [valid |-> FALSE]
NoProbe == [fn |-> "none"]
\* a process that has iterated no set yet
NoOrders == [set \in {} |-> <<>>]

Idle ==
    /\ handler = "none" /\ pc = "idle"
    /\ current_weather = None /\ forecast_data = None /\ image_path = <<>>
    /\ now = NoClock /\ tweet_lines = <<>> /\ hashtags = <<>>
    /\ final_tweet_text = <<>> /\ success = "unset"
    /\ temp_file = FALSE /\ response = NoResponse /\ raised = "none"
    /\ calls = NoCalls /\ stages = <<>>

Init ==
    /\ POST_TO_TWITTER_ENABLED \in BOOLEAN
    /\ set_order = NoOrders
    /\ environ \in [WEATHER_API_KEY : BOOLEAN, TWITTER : BOOLEAN]
    /\ Idle
    /\ last_preview = NoPreview
    /\ probe = NoProbe

Count(name) == [calls EXCEPT ![name] = @ + 1]

\* the handler returns (status, body)
Returns(status, body) ==
    /\ response' = [status |-> status, body |-> body]
    /\ raised' = "none"
    /\ pc' = "done"

\* an exception or SystemExit leaves the handler
Escapes(what) ==
    /\ response' = NoResponse
    /\ raised' = what
    /\ pc' = "done"

(***************************************************************************)
(* run_tweet_task_endpoint, lines 297-304, and test_preview_endpoint,      *)
(* lines 325-327: the request arrives.                                     *)
(***************************************************************************)
TaskSkippedNever(enabled) == FALSE
TaskSkipped(enabled) == ~enabled

RunTweetTask ==
    /\ pc = "idle"
    /\ handler' = "run_tweet_task"
    /\ IF TaskSkipped(POST_TO_TWITTER_ENABLED)
       THEN Returns(403, "Live tweet task skipped because POST_TO_TWITTER_ENABLED is false.")
       ELSE pc' = "get_weather" /\ UNCHANGED <<response, raised>>
    /\ UNCHANGED <<config, locals, temp_file, calls, stages, last_preview, probe>>

TestPreview ==
    /\ pc = "idle"
    /\ handler' = "test_preview"
    /\ pc' = "get_weather"
    /\ UNCHANGED <<config, locals, temp_file, response, raised, calls, stages,
                   last_preview, probe>>

(***************************************************************************)
(* get_weather and get_forecast                                            *)
(***************************************************************************)
\* without the API key no request is made; a request fails or returns a document
GetWeather(docs) ==
    /\ pc = "get_weather"
    /\ stages' = Append(stages, "FETCH_CURRENT")
    /\ \/ /\ ~environ.WEATHER_API_KEY
          /\ current_weather' = None
          /\ UNCHANGED calls
       \/ /\ environ.WEATHER_API_KEY
          /\ calls' = Count("requests_weather")
          /\ current_weather' \in docs \cup {None}
    /\ pc' = "get_forecast"
    /\ UNCHANGED <<config, handler, forecast_data, image_path, now, tweet_lines,
                   hashtags, final_tweet_text, temp_file, response, raised,
                   last_preview, probe, success>>

\* lines 308 and 331
DataMissingBoth(current, forecast) == ~Truthy(current) /\ ~Truthy(forecast)
DataMissing(current, forecast) == ~Truthy(current) \/ ~Truthy(forecast)

\* get_forecast, then the handler's check of both results
GetForecast ==
    /\ pc = "get_forecast"
    /\ stages' = Append(stages, "FETCH_FORECAST")
    /\ \/ /\ ~environ.WEATHER_API_KEY
          /\ forecast_data' = None
          /\ UNCHANGED calls
       \/ /\ environ.WEATHER_API_KEY
          /\ calls' = Count("requests_forecast")
          /\ forecast_data' \in {ForecastDoc, None}
    /\ IF DataMissing(current_weather, forecast_data')
       THEN IF handler = "run_tweet_task"
            THEN Returns(500, "Failed to get weather or forecast data.")
            ELSE Returns(500, "<h1>Error</h1><p>Could not get weather or forecast data. Check logs.</p>")
       ELSE pc' = "create_weather_image" /\ UNCHANGED <<response, raised>>
    /\ UNCHANGED <<config, handler, current_weather, image_path, now, tweet_lines,
                   hashtags, final_tweet_text, temp_file, last_preview, probe, success>>

(***************************************************************************)
(* create_weather_image, then the handler's check of its result            *)
(***************************************************************************)
\* line 153
ImageInputsMissing(current, forecast) == ~Truthy(current) \/ ~Truthy(forecast)

\* lines 312 and 335
ImageMissing(path) == ~Truthy(path)

ImageFailed ==
    IF handler = "run_tweet_task"
    THEN Returns(500, "Failed to create weather image.")
    ELSE Returns(500, "<h1>Error</h1><p>Could not create weather image. Check logs.</p>")

\* lines 311-313 and 334-336: the handler takes the result
AfterImage(path) ==
    /\ image_path' = path
    /\ IF ImageMissing(path)
       THEN ImageFailed
       ELSE /\ pc' = IF handler = "run_tweet_task"
                     THEN "generate_tweet_content" ELSE "read_image"
            /\ UNCHANGED <<response, raised>>

CreateWeatherImage ==
    /\ pc = "create_weather_image"
    /\ stages' = Append(stages, "BUILD_IMAGE")
    /\ \/ \* line 153: an input is missing
          /\ ImageInputsMissing(current_weather, forecast_data)
          /\ AfterImage(<<>>)
          /\ UNCHANGED <<temp_file, calls>>
       \/ \* line 159: the template file is not there
          /\ ~ImageInputsMissing(current_weather, forecast_data)
          /\ AfterImage(<<>>)
          /\ UNCHANGED <<temp_file, calls>>
       \/ \* line 164: render_template_string raises, outside any try
          /\ ~ImageInputsMissing(current_weather, forecast_data)
          /\ image_path' = <<>> /\ UNCHANGED <<temp_file, calls>>
          /\ Escapes("Exception")
       \/ \* line 185: imgkit fails after the temporary file was created
          /\ ~ImageInputsMissing(current_weather, forecast_data)
          /\ AfterImage(<<>>)
          /\ temp_file' = TRUE
          /\ calls' = Count("render")
       \/ \* line 184: the image is written
          /\ ~ImageInputsMissing(current_weather, forecast_data)
          /\ AfterImage(TempPath)
          /\ temp_file' = TRUE
          /\ calls' = Count("render")
    /\ UNCHANGED <<config, handler, current_weather, forecast_data, now, tweet_lines,
                   hashtags, final_tweet_text, last_preview, probe, success>>

(***************************************************************************)
(* test_preview_endpoint, lines 338-347: read the image, then remove it    *)
(***************************************************************************)
ReadImage ==
    /\ pc = "read_image"
    /\ IF image_path # <<>> /\ temp_file
       THEN temp_file' = FALSE /\ calls' = Count("remove")
       ELSE UNCHANGED <<temp_file, calls>>
    /\ \/ pc' = "generate_tweet_content" /\ UNCHANGED <<response, raised>>
       \/ Returns(500, "<h1>Error</h1><p>Could not read or encode image file.</p>")
    /\ UNCHANGED <<config, handler, locals, stages, last_preview, probe>>

(***************************************************************************)
(* generate_tweet_content and create_full_tweet_text                       *)
(***************************************************************************)
Range(list) == {list[i] : i \in 1..Len(list)}

\* within one process the same set is built by the same steps from the same
\* hashes, so it iterates in the order it iterated before
InThisProcess(orders, list) ==
    Range(list) \in DOMAIN orders => orders[Range(list)] = list

Iterated(orders, list) ==
    IF Range(list) \in DOMAIN orders
    THEN orders
    ELSE [set \in DOMAIN orders \cup {Range(list)} |->
             IF set = Range(list) THEN list ELSE orders[set]]

GenerateTweetContent ==
    /\ pc = "generate_tweet_content"
    /\ stages' = Append(stages, "COMPOSE_TEXT")
    /\ \E clock \in Clocks :
        /\ now' = clock
        /\ IF ContentRaises(current_weather)
           THEN /\ Escapes("Exception")
                /\ UNCHANGED <<tweet_lines, hashtags, set_order>>
           ELSE /\ \E content \in generate_tweet_content(current_weather, clock) :
                    /\ InThisProcess(set_order, content.hashtags)
                    /\ tweet_lines' = content.tweet_lines
                    /\ hashtags' = content.hashtags
                    /\ set_order' = Iterated(set_order, content.hashtags)
                /\ pc' = "create_full_tweet_text"
                /\ UNCHANGED <<response, raised>>
    /\ UNCHANGED <<settings, handler, current_weather, forecast_data, image_path,
                   final_tweet_text, temp_file, calls, last_preview, probe, success>>

CreateFullTweetText ==
    /\ pc = "create_full_tweet_text"
    /\ stages' = Append(stages, "BUDGET")
    /\ final_tweet_text' = create_full_tweet_text(tweet_lines, hashtags)
    /\ hashtags' = TrimmedHashtags(Body(tweet_lines), hashtags)
    /\ IF handler = "run_tweet_task"
       THEN pc' = "tweet_post"
       ELSE pc' = "render_template"
    /\ UNCHANGED <<config, handler, current_weather, forecast_data, image_path, now,
                   tweet_lines, temp_file, response, raised, calls, last_preview, probe, success>>

(***************************************************************************)
(* tweet_post, then lines 319-322 of run_tweet_task_endpoint                *)
(***************************************************************************)
\* the finally clause of the second try, lines 229-232
RemoveImage(c) ==
    IF image_path # <<>> /\ temp_file
    THEN /\ temp_file' = FALSE /\ calls' = [c EXCEPT !.remove = @ + 1]
         /\ stages' = stages \o <<"PUBLISH", "CLEANUP">>
    ELSE /\ UNCHANGED temp_file /\ calls' = c
         /\ stages' = Append(stages, "PUBLISH")

\* what line 318 gets from tweet_post
PostFailedReported200 ==
    success' = "False" /\ Returns(200, "Tweet task executed successfully.")
PostFailed == success' = "False" /\ Returns(500, "Tweet task execution failed.")
PostSucceeded == success' = "True" /\ Returns(200, "Tweet task executed successfully.")
\* tweet_post does not return: line 318 assigns nothing
PostEscapes(what) == UNCHANGED success /\ Escapes(what)

TweetPost ==
    /\ pc = "tweet_post"
    /\ LET c0 == Count("tweet_post")
           c1 == [c0 EXCEPT !.media_upload = @ + 1]
           c2 == [c1 EXCEPT !.create_tweet = @ + 1]
       IN
       \/ \* lines 203-206: get_env_variable calls sys.exit, and SystemExit is
          \* not an Exception, so line 217 does not catch it
          /\ ~environ.TWITTER
          /\ calls' = c0 /\ UNCHANGED temp_file
          /\ stages' = Append(stages, "PUBLISH")
          /\ PostEscapes("SystemExit")
       \/ \* lines 217-219: building the clients raises
          /\ environ.TWITTER
          /\ calls' = c0 /\ UNCHANGED temp_file
          /\ stages' = Append(stages, "PUBLISH")
          /\ PostFailed
       \/ \* line 222 raises a TweepyException
          /\ environ.TWITTER
          /\ RemoveImage(c1)
          /\ PostFailed
       \/ \* line 222 raises something else
          /\ environ.TWITTER
          /\ RemoveImage(c1)
          /\ PostEscapes("Exception")
       \/ \* line 223 raises a TweepyException
          /\ environ.TWITTER
          /\ RemoveImage(c2)
          /\ PostFailed
       \/ \* line 223 raises something else
          /\ environ.TWITTER
          /\ RemoveImage(c2)
          /\ PostEscapes("Exception")
       \/ \* line 225
          /\ environ.TWITTER
          /\ RemoveImage(c2)
          /\ PostSucceeded
    /\ UNCHANGED <<config, handler, composed, last_preview, probe>>

(***************************************************************************)
(* test_preview_endpoint, lines 352-354                                    *)
(***************************************************************************)
RenderTemplate ==
    /\ pc = "render_template"
    /\ \/ Returns(200, "test_preview.html")
       \/ Escapes("Exception")
    /\ UNCHANGED <<config, handler, locals, temp_file, calls, stages, last_preview,
                   probe>>

(***************************************************************************)
(* The response is sent and the next request can arrive.                   *)
(***************************************************************************)
\* the composed content of a preview without its greeting line
ContentAfterGreeting ==
    SubSeq(final_tweet_text, Len(tweet_lines[1]) + 1, Len(final_tweet_text))

ThisPreview ==
    [valid |-> TRUE, weather |-> current_weather, weekday |-> now.weekday,
     content |-> ContentAfterGreeting]

PreviewShown == handler = "test_preview" /\ pc = "done" /\ response.status = 200

ResetRun ==
    /\ pc = "done"
    /\ handler' = "none" /\ pc' = "idle"
    /\ current_weather' = None /\ forecast_data' = None /\ image_path' = <<>>
    /\ now' = NoClock /\ tweet_lines' = <<>> /\ hashtags' = <<>>
    /\ final_tweet_text' = <<>> /\ success' = "unset"
    /\ temp_file' = FALSE /\ response' = NoResponse /\ raised' = "none"
    /\ calls' = NoCalls /\ stages' = <<>>
    /\ UNCHANGED <<settings, probe>>

\* the response is sent and the process stays to serve the next request
Return ==
    /\ ResetRun
    /\ UNCHANGED <<set_order, last_preview>>

\* the same step, with the observer noting a preview that was shown
ReturnObserved ==
    /\ ResetRun
    /\ last_preview' = IF PreviewShown THEN ThisPreview ELSE last_preview
    /\ UNCHANGED set_order

\* the process is started again: a new hash salt, nothing iterated yet
Restart ==
    /\ pc = "idle"
    /\ set_order # NoOrders
    /\ set_order' = NoOrders
    /\ UNCHANGED <<settings, handler, pc, locals, temp_file,
                   response, raised, calls, stages, last_preview, probe>>

Next ==
    \/ RunTweetTask
    \/ TestPreview
    \/ GetWeather(WeatherDocs)
    \/ GetForecast
    \/ CreateWeatherImage
    \/ ReadImage
    \/ GenerateTweetContent
    \/ CreateFullTweetText
    \/ TweetPost
    \/ RenderTemplate
    \/ Return
    \/ Restart

Spec == Init /\ [][Next]_vars

(***************************************************************************)
(* The preview route alone, observed over consecutive runs.                *)
(***************************************************************************)
InitPreview ==
    /\ Init
    /\ ~POST_TO_TWITTER_ENABLED
    /\ ~environ.TWITTER

NextPreview ==
    \/ TestPreview
    \/ GetWeather(PreviewDocs)
    \/ GetForecast
    \/ CreateWeatherImage
    \/ ReadImage
    \/ GenerateTweetContent
    \/ CreateFullTweetText
    \/ RenderTemplate
    \/ ReturnObserved
    \/ Restart

SpecPreview == InitPreview /\ [][NextPreview]_vars

(***************************************************************************)
(* The pure functions on their own: the arguments are drawn in the initial *)
(* state and one step applies the function.                                *)
(***************************************************************************)
FixedConfig ==
    /\ POST_TO_TWITTER_ENABLED = TRUE
    /\ set_order = NoOrders
    /\ environ = [WEATHER_API_KEY |-> TRUE, TWITTER |-> TRUE]
    /\ Idle
    /\ last_preview = NoPreview

NotRunning ==
    UNCHANGED <<config, handler, pc, locals, temp_file, response, raised, calls,
                stages, last_preview>>

Applied(fn) == probe.fn = fn /\ probe.applied

\* degrees_to_cardinal(d) and degrees_to_cardinal(d + 360 * k)
CardinalDegrees == (-360 * MaxTurns)..(360 * MaxTurns + 360)
CardinalTurns == (-MaxTurns)..MaxTurns

InitCardinal ==
    /\ FixedConfig
    /\ probe \in [fn : {"degrees_to_cardinal"}, d : CardinalDegrees, k : CardinalTurns,
                  applied : {FALSE}, result : {<<>>}, shifted : {<<>>}]

ApplyCardinal ==
    /\ probe.fn = "degrees_to_cardinal" /\ ~probe.applied
    /\ probe' = [probe EXCEPT !.applied = TRUE,
                              !.result = degrees_to_cardinal(probe.d),
                              !.shifted = degrees_to_cardinal(probe.d + 360 * probe.k)]
    /\ NotRunning

SpecCardinal == InitCardinal /\ [][ApplyCardinal]_vars

\* create_full_tweet_text(tweet_lines, hashtags)
LineLengths == {0, 1, 138, 139, 140, 281}
BudgetLines == {Rep(<<"x">>, n) : n \in LineLengths}
BudgetTags == {<<"#", "a">>, TagRain, TagWindy}

SeqsUpTo(set, n) == UNION {[1..m -> set] : m \in 0..n}

InitBudget ==
    /\ FixedConfig
    /\ probe \in [fn : {"create_full_tweet_text"},
                  tweet_lines : SeqsUpTo(BudgetLines, MaxLines),
                  hashtags : SeqsUpTo(BudgetTags, MaxTags),
                  applied : {FALSE}, result : {<<>>}, kept : {<<>>}]

ApplyBudget ==
    /\ probe.fn = "create_full_tweet_text" /\ ~probe.applied
    /\ probe' = [probe EXCEPT
                    !.applied = TRUE,
                    !.result = create_full_tweet_text(probe.tweet_lines, probe.hashtags),
                    !.kept = TrimmedHashtags(Body(probe.tweet_lines), probe.hashtags)]
    /\ NotRunning

SpecBudget == InitBudget /\ [][ApplyBudget]_vars

\* generate_dynamic_hashtags(weather_data, current_day)
InitHashtags ==
    /\ FixedConfig
    /\ probe \in [fn : {"generate_dynamic_hashtags"}, weather_data : HashtagDocs,
                  current_day : Weekdays,
                  applied : {FALSE}, result : {<<>>}, raised : {"none"}]

ApplyHashtags ==
    /\ probe.fn = "generate_dynamic_hashtags" /\ ~probe.applied
    /\ IF HashtagsRaise(probe.weather_data)
       THEN probe' = [probe EXCEPT !.applied = TRUE, !.raised = "IndexError"]
       ELSE \E tags \in generate_dynamic_hashtags(probe.weather_data, probe.current_day) :
                probe' = [probe EXCEPT !.applied = TRUE, !.result = tags]
    /\ NotRunning

SpecHashtags == InitHashtags /\ [][ApplyHashtags]_vars

(***************************************************************************)
(* Properties.                                                             *)
(***************************************************************************)
PublishRun == handler = "run_tweet_task"
RunEnded == PublishRun /\ pc = "done"
PublishCalls == calls.media_upload + calls.create_tweet

Fetched(stage) == \E i \in 1..Len(stages) : stages[i] = stage

SkippedResponse ==
    [status |-> 403,
     body |-> "Live tweet task skipped because POST_TO_TWITTER_ENABLED is false."]
FetchFailedResponse ==
    [status |-> 500, body |-> "Failed to get weather or forecast data."]
ImageFailedResponse == [status |-> 500, body |-> "Failed to create weather image."]
PublishFailedResponse == [status |-> 500, body |-> "Tweet task execution failed."]
PublishSucceededResponse ==
    [status |-> 200, body |-> "Tweet task executed successfully."]
FailedResponses == {FetchFailedResponse, ImageFailedResponse, PublishFailedResponse}

\* C1: a publish run that got an image path from create_weather_image has
\* ended only with the image file removed from disk.
ArtifactDeletedAtEnd ==
    (RunEnded /\ Truthy(image_path)) => ~temp_file

\* C2: with POST_TO_TWITTER_ENABLED false a publish run makes no call to
\* tweet_post, media_upload or create_tweet, and it ends with the skipped
\* response, which is none of the failed responses, and with nothing raised.
DisabledRunIsSkipped ==
    (PublishRun /\ ~POST_TO_TWITTER_ENABLED) =>
        /\ calls.tweet_post = 0 /\ PublishCalls = 0
        /\ pc = "done"
        /\ response = SkippedResponse
        /\ response \notin FailedResponses
        /\ raised = "none"

DisabledRunSkipped ==
    PublishRun /\ ~POST_TO_TWITTER_ENABLED /\ pc = "done" /\ response.status = 403

\* C3: with publishing enabled, once get_weather has returned nothing the
\* publish run never enters create_weather_image, renders nothing, creates no
\* image file, publishes nothing, and ends with the data-fetch failure.
MissingWeatherFails ==
    (PublishRun /\ POST_TO_TWITTER_ENABLED /\ Fetched("FETCH_CURRENT")
        /\ ~Truthy(current_weather)) =>
        /\ ~Fetched("BUILD_IMAGE")
        /\ calls.render = 0 /\ calls.tweet_post = 0 /\ PublishCalls = 0
        /\ image_path = <<>> /\ ~temp_file
        /\ pc \in {"get_forecast", "done"}
        /\ pc = "done" => (response = FetchFailedResponse /\ raised = "none")

MissingWeatherFailed ==
    /\ RunEnded /\ POST_TO_TWITTER_ENABLED
    /\ calls.requests_weather = 1 /\ ~Truthy(current_weather)
    /\ Truthy(forecast_data)
    /\ response = FetchFailedResponse

\* the hashtags of list picked by mask
RECURSIVE Masked(_, _)
Masked(list, mask) ==
    IF Len(list) = 0 THEN <<>>
    ELSE (IF mask[1] THEN <<list[1]>> ELSE <<>>) \o Masked(Tail(list), Tail(mask))

\* a body with some hashtags: the body alone when none is left
WithHashtags(body, tags) ==
    IF Len(tags) = 0 THEN body ELSE body \o <<"\n">> \o Join(<<" ">>, tags)

AchievableByRemoval(body, tags) ==
    \E mask \in [1..Len(tags) -> BOOLEAN] :
        Len(WithHashtags(body, Masked(tags, mask))) <= TWITTER_MAX_CHARS

\* C4: the result of create_full_tweet_text begins with the newline-joined
\* lines unchanged; when the body with all hashtags is over 280 characters and
\* some removal of hashtags brings it to 280 or fewer, the result is at most 280
\* characters long; when the body alone is over 280, the result is the body.
BudgetKeepsBody ==
    Applied("create_full_tweet_text") =>
        LET body == Join(<<"\n">>, probe.tweet_lines)
            all == body \o <<"\n">> \o Join(<<" ">>, probe.hashtags)
        IN  /\ Len(probe.result) >= Len(body)
            /\ SubSeq(probe.result, 1, Len(body)) = body
            /\ (Len(all) > TWITTER_MAX_CHARS /\ AchievableByRemoval(body, probe.hashtags))
                    => Len(probe.result) <= TWITTER_MAX_CHARS
            /\ Len(body) > TWITTER_MAX_CHARS => probe.result = body

\* hashtags were removed, and not all of them, to fit the budget
BudgetTrimmedSome ==
    /\ Applied("create_full_tweet_text")
    /\ Len(probe.kept) > 0 /\ Len(probe.kept) < Len(probe.hashtags)
    /\ Len(probe.result) = TWITTER_MAX_CHARS

\* C5: the text a publish run hands to tweet_post is at most 280 characters.
PublishedTextWithinBudget ==
    (PublishRun /\ calls.tweet_post > 0) => Len(final_tweet_text) <= TWITTER_MAX_CHARS

\* C6: degrees_to_cardinal(d) = degrees_to_cardinal(d + 360 * k).
CardinalPeriodic ==
    Applied("degrees_to_cardinal") => probe.result = probe.shifted

\* every hashtag the bot knows
AllTags == {TagGachibowli, TagHyderabad, TagWeatherUpdate, TagHyderabadRains, TagRain,
            TagHeatwave, TagSunnyDay, TagWindy, TagWeekendWeather}

NoDuplicates(list) == \A i, j \in 1..Len(list) : list[i] = list[j] => i = j

\* the description holds 'clear' in any mix of cases
HasClear(description) ==
    \E i \in 0..(Len(description) - 5) :
        \A j \in 1..5 : ToLower(description[i + j]) = Clear[j]

\* the tags the conditions of the claim call for; speed * 3.6 > 25 is
\* speed * 18 > 125
ExpectedTags(doc, weekday) ==
    LET rain == IF "rain" \in DOMAIN doc /\ "1h" \in DOMAIN doc.rain
                THEN doc.rain["1h"] ELSE 0
        temp == IF "main" \in DOMAIN doc /\ "temp" \in DOMAIN doc.main
                THEN doc.main.temp ELSE 0
        speed == IF "wind" \in DOMAIN doc /\ "speed" \in DOMAIN doc.wind
                 THEN doc.wind.speed ELSE 0
        description == IF "weather" \in DOMAIN doc /\ Len(doc.weather) > 0
                          /\ "description" \in DOMAIN doc.weather[1]
                       THEN doc.weather[1].description ELSE <<>>
    IN  [t \in AllTags |->
            \/ t \in {TagGachibowli, TagHyderabad, TagWeatherUpdate}
            \/ t \in {TagHyderabadRains, TagRain} /\ rain > 0
            \/ t = TagHeatwave /\ temp > 35
            \/ t = TagSunnyDay /\ HasClear(description)
            \/ t = TagWindy /\ speed * 18 > 125
            \/ t = TagWeekendWeather /\ weekday \in {Saturday, Sunday}]

\* the document of the claim's example: temp=36, rain=0, wind=10, 'clear sky'
HotClearDoc == Doc(DescClearSky, 36, 10, 90, 0)

\* C7: for every weather document and weekday generate_dynamic_hashtags
\* returns a list, without duplicates, of the three base tags and exactly the
\* conditional tags whose conditions hold; for the document of the example on
\* a Saturday: heatwave, sunny and weekend, no rain tag, no windy tag.
HashtagsExact ==
    Applied("generate_dynamic_hashtags") =>
        /\ probe.raised = "none"
        /\ LET expected == ExpectedTags(probe.weather_data, probe.current_day)
           IN  /\ NoDuplicates(probe.result)
               /\ \A t \in AllTags : (t \in Range(probe.result)) <=> expected[t]
               /\ Range(probe.result) \subseteq AllTags
        /\ (probe.weather_data = HotClearDoc /\ probe.current_day = Saturday) =>
                Range(probe.result) =
                    BaseTags \cup {TagHeatwave, TagSunnyDay, TagWeekendWeather}

\* C8: a publish run ends with a response, never with SystemExit or an
\* exception leaving the handler.
RunEndsReported ==
    RunEnded => (raised = "none" /\ response.status \in {200, 403, 500})

\* C9: a preview makes no publish call, and a shown preview has the same
\* content after the greeting line as the previous shown preview of the same
\* weather document on the same weekday.
PreviewRepeatable ==
    /\ handler = "test_preview" => (calls.tweet_post = 0 /\ PublishCalls = 0)
    /\ (PreviewShown /\ last_preview.valid)
        => ((last_preview.weather = current_weather /\ last_preview.weekday = now.weekday)
                => last_preview.content = ContentAfterGreeting)

StageOrder == <<"FETCH_CURRENT", "FETCH_FORECAST", "BUILD_IMAGE", "COMPOSE_TEXT",
                "BUDGET", "PUBLISH", "CLEANUP">>

IsPrefix(s, t) == Len(s) <= Len(t) /\ SubSeq(t, 1, Len(s)) = s

\* C10, as stated: once the current-weather stage has returned nothing, no
\* later stage's collaborator is called: no forecast request is made.
NoCallAfterNullResult ==
    (PublishRun /\ Fetched("FETCH_CURRENT") /\ ~Truthy(current_weather))
        => calls.requests_forecast = 0

\* C10, amended: the stages of a publish run are entered in the fixed order;
\* the forecast is fetched whatever the current-weather fetch returned; the
\* image stage is entered only with both documents, the text, budget and
\* publish stages only with an image path; tweet_post is called at most once,
\* and its file removal follows the upload; a run that returned after a null
\* fetch, image or publish result returned that stage's failure and made no
\* render (after a null fetch) and no publish call (after a null fetch or image).
StagesInOrder ==
    PublishRun =>
        /\ IsPrefix(stages, StageOrder)
        /\ Fetched("FETCH_FORECAST") => Fetched("FETCH_CURRENT")
        /\ Fetched("BUILD_IMAGE") => (Truthy(current_weather) /\ Truthy(forecast_data))
        /\ Fetched("COMPOSE_TEXT") => Truthy(image_path)
        /\ calls.tweet_post <= 1 /\ calls.media_upload <= 1 /\ calls.create_tweet <= 1
        /\ calls.tweet_post = 1 => Fetched("BUDGET")
        /\ PublishCalls > 0 => calls.tweet_post = 1
        /\ Fetched("CLEANUP") <=> calls.remove = 1
        /\ calls.remove > 0 => calls.media_upload = 1
        /\ (pc = "done" /\ Fetched("FETCH_FORECAST")
                /\ (~Truthy(current_weather) \/ ~Truthy(forecast_data)))
            => (response = FetchFailedResponse /\ calls.render = 0 /\ calls.tweet_post = 0)
        /\ (pc = "done" /\ raised = "none" /\ Fetched("BUILD_IMAGE") /\ ~Truthy(image_path))
            => (response = ImageFailedResponse /\ calls.tweet_post = 0)
        /\ success # "unset" => (calls.tweet_post = 1 /\ pc = "done" /\ raised = "none")
        /\ (pc = "done" /\ raised = "none" /\ calls.tweet_post = 1)
            => success \in {"True", "False"}
        /\ success = "False" => response = PublishFailedResponse
        /\ success = "True" => (response = PublishSucceededResponse /\ calls.create_tweet = 1)

\* a forecast request made after the current-weather request failed
ForecastFetchedAfterNull ==
    /\ RunEnded /\ ~Truthy(current_weather)
    /\ calls.requests_weather = 1 /\ calls.requests_forecast = 1
    /\ response = FetchFailedResponse

=============================================================================
